---- MODULE Spec2Model ----
(***************************************************************************)
(* Face attendance backend: face matching (routes/attendance.py,           *)
(* services/face_service.py), liveness fusion                              *)
(* (services/anti_spoof_service.py) and the punch-in / punch-out decision  *)
(* (routes/attendance.py).                                                 *)
(*                                                                         *)
(* Units.  Time is counted in ticks, TicksPerSecond ticks to the second    *)
(* (datetime has microsecond resolution; a tick stands for the sub-second  *)
(* part).  Embedding distances and texture scores are in hundredths        *)
(* (0.45 -> 45), liveness weights and confidences in tenths (0.5 -> 5),    *)
(* landmark coordinates in tenths of a pixel (0.3 -> 3).                   *)
(***************************************************************************)
EXTENDS Integers, Sequences, FiniteSets, TLC

VARIABLES
    now,               \* datetime.utcnow(), in ticks
    tz,                \* local-time offset of date.today() from UTC, in ticks
    users,             \* users table: id -> [is_active]
    face_encodings,    \* face_encodings table, in insertion order
    attendance_logs,   \* attendance_logs table, in insertion order
    call,              \* the arguments of the verify_liveness call of the last
                       \* operation (None: it made no such call)
    liveness_result,   \* what that call returned
    resp,              \* the response of the last operation (None: the
                       \* operation was not a request handler)
    blink_history,     \* anti_spoof_service.blink_history
    motion_history,    \* anti_spoof_service.motion_history
    pc,                \* per worker process: position inside punch
    snap,              \* per worker process: locals of punch between read and write
    settings,          \* config.settings: FACE_RECOGNITION_TOLERANCE, in hundredths
    op,                \* the last call of /attendance/recognize or of a method
                       \* of anti_spoof_service: its name, the session that
                       \* made it and its arguments (None: the last operation
                       \* was another)
    owner              \* for each sample of blink_history and motion_history,
                       \* the session whose call appended it

vars == <<now, tz, users, face_encodings, attendance_logs, call,
          liveness_result, resp, blink_history, motion_history, pc, snap,
          settings, op, owner>>

\* Optional[T]: None is the empty tuple, a present value v is Some(v)
None == <<>>
Some(v) == <<v>>

\* A call as op records it
Op(name, session, args) == [name |-> name, session |-> session, args |-> args]

-----------------------------------------------------------------------------
(* Bounds of the model *)

TicksPerSecond == 2
MaxSlot == 2
MaxEvents == 3
MaxBurst == 3
MaxHist == 2

(* Program constants *)

FACE_RECOGNITION_TOLERANCE == 45
LIVENESS_FRAMES_REQUIRED == 3
TEXTURE_THRESHOLD == 60
MIN_HOURS_FOR_PUNCHOUT == 6
BLINK_MAXLEN == 30
MOTION_MAXLEN == 10
MOTION_LOW == 3
MOTION_HIGH == 200
W_TEXTURE == 5
W_MOTION == 3
W_BLINK == 2
PASS_CONFIDENCE == 5
PUNCH_MIN_FRAMES == 2
PUNCH_MAX_FRAMES == 5
BLINK_THRESHOLD == 25
BLINK_MIN_HISTORY == 10
BLINK_WINDOW == 6
BLINK_OPEN == 25
BLINK_CLOSED == 20

Second == TicksPerSecond
Minute == 60 * Second
Hour == 3600 * Second
Day == 24 * Hour

-----------------------------------------------------------------------------
(* Small helpers *)

Abs(x) == IF x < 0 THEN 0 - x ELSE x

Take(s, n) == SubSeq(s, 1, IF Len(s) < n THEN Len(s) ELSE n)

RECURSIVE SumAbsDiff(_, _)
SumAbsDiff(a, b) ==
    IF a = <<>> \/ b = <<>> THEN 0
    ELSE Abs(Head(a) - Head(b)) + SumAbsDiff(Tail(a), Tail(b))

\* Mutant: a bounded list that refuses the new item when full
DequeAppendDropNewest(q, x, maxlen) ==
    IF Len(q) >= maxlen THEN q ELSE Append(q, x)

\* collections.deque(maxlen=n).append: the oldest item is evicted when full
DequeAppend(q, x, maxlen) ==
    IF Len(q) >= maxlen THEN Append(Tail(q), x) ELSE Append(q, x)

-----------------------------------------------------------------------------
(* services/anti_spoof_service.py: the liveness engine *)

\* A frame is an image: whether detect_faces finds a face in it, and the
\* texture score (entropy / 8, clamped to 1.0, in hundredths) that
\* analyze_texture computes from its pixels.
Frame(face, texture) == [face |-> face, texture |-> texture]

analyze_texture(face_image) ==
    [is_real |-> face_image.texture > TEXTURE_THRESHOLD,
     texture_score |-> face_image.texture]

\* Mutant: the band 0.3 <= movement <= 20.0 with its bounds included
detect_motion_inclusive(current_landmarks, previous_landmarks, history) ==
    IF previous_landmarks = None
    THEN [has_movement |-> FALSE, movement |-> 0,
          motion_history |-> DequeAppend(history, current_landmarks, MOTION_MAXLEN)]
    ELSE LET n == Len(current_landmarks)
             movement == SumAbsDiff(current_landmarks, previous_landmarks[1])
         IN  [has_movement |-> MOTION_LOW * n <= movement /\ movement <= MOTION_HIGH * n,
              movement |-> movement,
              motion_history |-> DequeAppend(history, current_landmarks, MOTION_MAXLEN)]

\* movement = mean(|current - previous|) over the coordinates; the band test
\* 0.3 < movement < 20.0 is taken on the sum, n coordinates to a snapshot.
detect_motion(current_landmarks, previous_landmarks, history) ==
    IF previous_landmarks = None
    THEN [has_movement |-> FALSE, movement |-> 0,
          motion_history |-> DequeAppend(history, current_landmarks, MOTION_MAXLEN)]
    ELSE LET n == Len(current_landmarks)
             movement == SumAbsDiff(current_landmarks, previous_landmarks[1])
         IN  [has_movement |-> MOTION_LOW * n < movement /\ movement < MOTION_HIGH * n,
              movement |-> movement,
              motion_history |-> DequeAppend(history, current_landmarks, MOTION_MAXLEN)]

\* for i in range(1, len(landmarks_list)): ... if has_motion: break
RECURSIVE MotionLoop(_, _, _)
MotionLoop(landmarks_list, i, history) ==
    IF i > Len(landmarks_list)
    THEN [motion_passed |-> FALSE, motion_history |-> history]
    ELSE LET r == detect_motion(landmarks_list[i], Some(landmarks_list[i - 1]), history)
         IN  IF r.has_movement
             THEN [motion_passed |-> TRUE, motion_history |-> r.motion_history]
             ELSE MotionLoop(landmarks_list, i + 1, r.motion_history)

\* Mutant: overall_passed = confidence > 0.5 in place of >=
FusionStrict(texture_passed, motion_passed, blink_detected) ==
    LET confidence == (IF texture_passed THEN W_TEXTURE ELSE 0)
                      + (IF motion_passed THEN W_MOTION ELSE 0)
                      + (IF blink_detected THEN W_BLINK ELSE 0)
        overall == confidence > PASS_CONFIDENCE
    IN  [confidence |-> confidence,
         overall_passed |-> overall,
         message |-> IF overall THEN "Liveness verification passed"
                     ELSE "Liveness verification failed - possible spoof detected"]

\* Mutant: confidence = 0.3 in place of confidence += 0.3
FusionOverwrite(texture_passed, motion_passed, blink_detected) ==
    LET confidence == (IF motion_passed THEN W_MOTION
                       ELSE IF texture_passed THEN W_TEXTURE ELSE 0)
                      + (IF blink_detected THEN W_BLINK ELSE 0)
        overall == confidence >= PASS_CONFIDENCE
    IN  [confidence |-> confidence,
         overall_passed |-> overall,
         message |-> IF overall THEN "Liveness verification passed"
                     ELSE "Liveness verification failed - possible spoof detected"]

\* "Calculate overall confidence": the weighted sum and the verdict
Fusion(texture_passed, motion_passed, blink_detected) ==
    LET confidence == (IF texture_passed THEN W_TEXTURE ELSE 0)
                      + (IF motion_passed THEN W_MOTION ELSE 0)
                      + (IF blink_detected THEN W_BLINK ELSE 0)
        overall == confidence >= PASS_CONFIDENCE
    IN  [confidence |-> confidence,
         overall_passed |-> overall,
         message |-> IF overall THEN "Liveness verification passed"
                     ELSE "Liveness verification failed - possible spoof detected"]

InitialResults ==
    [blink_detected |-> FALSE, texture_passed |-> FALSE, motion_passed |-> FALSE,
     overall_passed |-> FALSE, confidence |-> 0, message |-> "",
     texture_score |-> None]

\* Mutant: the burst size is checked against 2, as the callers check it
verify_liveness_two_frames(frames, face_locations, landmarks_list, history) ==
    IF Len(frames) < 2
    THEN [passed |-> FALSE,
          results |-> [InitialResults EXCEPT !.message = "Need at least 3 frames"],
          motion_history |-> history]
    ELSE LET tex == analyze_texture(frames[1])
             mot == IF landmarks_list # None /\ Len(landmarks_list[1]) >= 2
                    THEN MotionLoop(landmarks_list[1], 2, history)
                    ELSE [motion_passed |-> FALSE, motion_history |-> history]
             fus == Fusion(tex.is_real, mot.motion_passed, FALSE)
         IN  [passed |-> fus.overall_passed,
              results |-> [blink_detected |-> FALSE,
                           texture_passed |-> tex.is_real,
                           motion_passed |-> mot.motion_passed,
                           overall_passed |-> fus.overall_passed,
                           confidence |-> fus.confidence,
                           message |-> fus.message,
                           texture_score |-> Some(tex.texture_score)],
              motion_history |-> mot.motion_history]

\* Mutant: blink_detected is set from the blink history (an open and a
\* closed sample in it) before the fusion
verify_liveness_blink_wired(frames, face_locations, landmarks_list, history) ==
    IF Len(frames) < LIVENESS_FRAMES_REQUIRED
    THEN [passed |-> FALSE,
          results |-> [InitialResults EXCEPT !.message = "Need at least 3 frames"],
          motion_history |-> history]
    ELSE LET tex == analyze_texture(frames[1])
             mot == IF landmarks_list # None /\ Len(landmarks_list[1]) >= 2
                    THEN MotionLoop(landmarks_list[1], 2, history)
                    ELSE [motion_passed |-> FALSE, motion_history |-> history]
             blink == /\ \E i \in 1..Len(blink_history) : blink_history[i] > BLINK_OPEN
                      /\ \E i \in 1..Len(blink_history) : blink_history[i] < BLINK_CLOSED
             fus == Fusion(tex.is_real, mot.motion_passed, blink)
         IN  [passed |-> fus.overall_passed,
              results |-> [blink_detected |-> blink,
                           texture_passed |-> tex.is_real,
                           motion_passed |-> mot.motion_passed,
                           overall_passed |-> fus.overall_passed,
                           confidence |-> fus.confidence,
                           message |-> fus.message,
                           texture_score |-> Some(tex.texture_score)],
              motion_history |-> mot.motion_history]

\* Returns (passed, results) and the motion history it leaves behind.
verify_liveness(frames, face_locations, landmarks_list, history) ==
    IF Len(frames) < LIVENESS_FRAMES_REQUIRED
    THEN [passed |-> FALSE,
          results |-> [InitialResults EXCEPT !.message = "Need at least 3 frames"],
          motion_history |-> history]
    ELSE LET tex == analyze_texture(frames[1])
             mot == IF landmarks_list # None /\ Len(landmarks_list[1]) >= 2
                    THEN MotionLoop(landmarks_list[1], 2, history)
                    ELSE [motion_passed |-> FALSE, motion_history |-> history]
             blink == InitialResults.blink_detected
             fus == Fusion(tex.is_real, mot.motion_passed, blink)
         IN  [passed |-> fus.overall_passed,
              results |-> [blink_detected |-> blink,
                           texture_passed |-> tex.is_real,
                           motion_passed |-> mot.motion_passed,
                           overall_passed |-> fus.overall_passed,
                           confidence |-> fus.confidence,
                           message |-> fus.message,
                           texture_score |-> Some(tex.texture_score)],
              motion_history |-> mot.motion_history]

-----------------------------------------------------------------------------
(* services/face_service.py and routes/attendance.py: face matching *)

\* face_recognition.face_distance on one-dimensional embeddings (hundredths)
face_distance(known, face_to_check) == Abs(known - face_to_check)

\* Mutant: np.argmax in place of np.argmin
RECURSIVE ArgMax(_, _, _)
ArgMax(distances, i, best) ==
    IF i > Len(distances) THEN best
    ELSE ArgMax(distances, i + 1,
                IF distances[i] > distances[best] THEN i ELSE best)

\* np.argmin: the first index of the smallest distance (1-based here)
RECURSIVE ArgMin(_, _, _)
ArgMin(distances, i, best) ==
    IF i > Len(distances) THEN best
    ELSE ArgMin(distances, i + 1,
                IF distances[i] < distances[best] THEN i ELSE best)

\* Mutant: the distance itself is reported as the confidence
compare_faces_distance(known_encodings, face_to_check, tolerance) ==
    IF known_encodings = <<>>
    THEN [is_match |-> FALSE, confidence |-> 0, best_index |-> 0 - 1]
    ELSE LET distances == [i \in 1..Len(known_encodings) |->
                              Abs(known_encodings[i] - face_to_check)]
             best_distance == CHOOSE d \in {distances[i] : i \in DOMAIN distances} :
                                  \A j \in DOMAIN distances : d <= distances[j]
         IN  [is_match |-> best_distance <= tolerance,
              confidence |-> best_distance,
              best_index |-> 0]

\* Returns (is_match, confidence, best_index)
compare_faces(known_encodings, face_to_check, tolerance) ==
    IF known_encodings = <<>>
    THEN [is_match |-> FALSE, confidence |-> 0, best_index |-> 0 - 1]
    ELSE LET distances == [i \in 1..Len(known_encodings) |->
                              face_distance(known_encodings[i], face_to_check)]
             best_index == ArgMin(distances, 1, 1)
             best_distance == distances[best_index]
         IN  [is_match |-> best_distance <= tolerance,
              confidence |-> 100 - best_distance,
              best_index |-> best_index - 1]

\* Mutant: the query without .filter(User.is_active == 1)
get_all_encodings_any_user == face_encodings

\* db.query(FaceEncoding).join(User).filter(User.is_active == 1).all()
get_all_encodings ==
    SelectSeq(face_encodings, LAMBDA enc : users[enc.user_id].is_active = 1)

\* "Group encodings by user": the keys of user_encodings in insertion order
RECURSIVE GroupKeys(_, _)
GroupKeys(rows, keys) ==
    IF rows = <<>> THEN keys
    ELSE GroupKeys(Tail(rows),
                   IF \E k \in 1..Len(keys) : keys[k] = Head(rows).user_id
                   THEN keys
                   ELSE Append(keys, Head(rows).user_id))

RECURSIVE EncodingsOf(_, _)
EncodingsOf(rows, user_id) ==
    IF rows = <<>> THEN <<>>
    ELSE IF Head(rows).user_id = user_id
         THEN <<Head(rows).encoding>> \o EncodingsOf(Tail(rows), user_id)
         ELSE EncodingsOf(Tail(rows), user_id)

\* "Find best match across all users": the loop over user_encodings.items()
RECURSIVE BestMatch(_, _, _, _, _)
BestMatch(rows, keys, encoding, best_match, best_confidence) ==
    IF keys = <<>> THEN best_match
    ELSE LET c == compare_faces(EncodingsOf(rows, Head(keys)), encoding,
                                settings.FACE_RECOGNITION_TOLERANCE)
         IN  IF c.is_match /\ c.confidence > best_confidence
             THEN BestMatch(rows, Tail(keys), encoding,
                            Some([user_id |-> Head(keys), confidence |-> c.confidence]),
                            c.confidence)
             ELSE BestMatch(rows, Tail(keys), encoding, best_match, best_confidence)

\* An image for recognition: the faces detect_faces finds in it, each with
\* its bounding-box area and the embedding get_face_encoding extracts
\* (None when extraction fails).
Face(area, encoding) == [area |-> area, encoding |-> encoding]

\* max(face_locations, key=area): the first face of the largest area
RECURSIVE LargestFace(_, _)
LargestFace(faces, best) ==
    IF faces = <<>> THEN best
    ELSE LargestFace(Tail(faces),
                     IF Head(faces).area > best.area THEN Head(faces) ELSE best)

\* Returns (match or None, message)
recognize_face(image) ==
    IF Len(image.faces) = 0
    THEN [match |-> None, message |-> "No face detected in the image"]
    ELSE LET face_location == IF Len(image.faces) > 1
                              THEN LargestFace(Tail(image.faces), Head(image.faces))
                              ELSE image.faces[1]
             encoding == face_location.encoding
             all_encodings_data == get_all_encodings
         IN  IF encoding = None
             THEN [match |-> None, message |-> "Could not extract face features"]
             ELSE IF all_encodings_data = <<>>
             THEN [match |-> None, message |-> "No registered users in the system"]
             ELSE LET best_match == BestMatch(all_encodings_data,
                                              GroupKeys(all_encodings_data, <<>>),
                                              encoding[1], None, 0)
                  IN  IF best_match # None
                      THEN [match |-> best_match,
                            message |-> "Face recognized successfully"]
                      ELSE [match |-> None,
                            message |-> "Face not recognized - not a registered user"]

-----------------------------------------------------------------------------
(* routes/attendance.py: punch *)

PUNCH_IN == "punch_in"
PUNCH_OUT == "punch_out"

\* A row of attendance_logs (photo_evidence and location carry no decision)
AttendanceLog(user_id, punch_type, timestamp, confidence_score, liveness_passed) ==
    [user_id |-> user_id, punch_type |-> punch_type, timestamp |-> timestamp,
     confidence_score |-> confidence_score, liveness_passed |-> liveness_passed]

PunchResponse(success, message, user_id, punch_type, timestamp, confidence, liveness_passed) ==
    [success |-> success, message |-> message, user_id |-> user_id,
     punch_type |-> punch_type, timestamp |-> timestamp,
     confidence |-> confidence, liveness_passed |-> liveness_passed]

\* date.today() is the local calendar date; datetime.combine(today, min/max)
\* are naive datetimes that the query compares with the stored UTC timestamps.
today_start(at) == ((at + tz) \div Day) * Day
today_end(at) == today_start(at) + Day - 1

\* .order_by(AttendanceLog.timestamp.desc()): insertion into a descending list
RECURSIVE InsertDesc(_, _)
InsertDesc(row, sorted) ==
    IF sorted = <<>> THEN <<row>>
    ELSE IF row.timestamp > Head(sorted).timestamp THEN <<row>> \o sorted
         ELSE <<Head(sorted)>> \o InsertDesc(row, Tail(sorted))

\* Mutant: the order is ascending, so today_logs[0] is the oldest event
RECURSIVE OrderByTimestampAsc(_)
OrderByTimestampAsc(rows) ==
    IF rows = <<>> THEN <<>>
    ELSE LET rest == OrderByTimestampAsc(Tail(rows))
             older == SelectSeq(rest, LAMBDA l : l.timestamp <= Head(rows).timestamp)
             newer == SelectSeq(rest, LAMBDA l : l.timestamp > Head(rows).timestamp)
         IN  older \o <<Head(rows)>> \o newer

RECURSIVE OrderByTimestampDesc(_)
OrderByTimestampDesc(rows) ==
    IF rows = <<>> THEN <<>>
    ELSE InsertDesc(Head(rows), OrderByTimestampDesc(Tail(rows)))

\* Mutant: the filter on AttendanceLog.user_id is missing
TodayLogsAnyUser(logs, user_id, at) ==
    OrderByTimestampDesc(
        SelectSeq(logs, LAMBDA l : /\ l.timestamp >= today_start(at)
                                   /\ l.timestamp <= today_end(at)))

\* today_logs = db.query(AttendanceLog).filter(...).order_by(...).all()
TodayLogs(logs, user_id, at) ==
    OrderByTimestampDesc(
        SelectSeq(logs, LAMBDA l : /\ l.user_id = user_id
                                   /\ l.timestamp >= today_start(at)
                                   /\ l.timestamp <= today_end(at)))

\* Mutants of the punch-type decision: parameterised by the minimum dwell
\* time, by whether the comparison is strict, and by how minutes are taken.
DeterminePunchTypeWith(today_logs, at, min_hours, strict, whole) ==
    IF today_logs = <<>>
    THEN [emit |-> TRUE, punch_type |-> PUNCH_IN, hours |-> 0, minutes |-> 0]
    ELSE LET last_punch == today_logs[1]
         IN  IF last_punch.punch_type = PUNCH_OUT
             THEN [emit |-> TRUE, punch_type |-> PUNCH_IN, hours |-> 0, minutes |-> 0]
             ELSE LET time_since_punch_in == at - last_punch.timestamp
                  IN  IF (IF strict THEN time_since_punch_in > min_hours
                                    ELSE time_since_punch_in >= min_hours)
                      THEN [emit |-> TRUE, punch_type |-> PUNCH_OUT,
                            hours |-> 0, minutes |-> 0]
                      ELSE LET remaining == min_hours - time_since_punch_in
                               seconds == remaining \div TicksPerSecond
                               remainder == seconds % 3600
                           IN  [emit |-> FALSE, punch_type |-> PUNCH_IN,
                                hours |-> seconds \div 3600,
                                minutes |-> IF whole THEN seconds \div 60
                                            ELSE remainder \div 60]

\* timedelta(minutes=...) in place of timedelta(hours=...)
DeterminePunchTypeMinutes(today_logs, at) ==
    DeterminePunchTypeWith(today_logs, at, MIN_HOURS_FOR_PUNCHOUT * Minute,
                           FALSE, FALSE)

\* time_since_punch_in > min_hours in place of >=
DeterminePunchTypeStrict(today_logs, at) ==
    DeterminePunchTypeWith(today_logs, at, MIN_HOURS_FOR_PUNCHOUT * Hour,
                           TRUE, FALSE)

\* minutes = seconds // 60 in place of remainder // 60
DeterminePunchTypeWholeMinutes(today_logs, at) ==
    DeterminePunchTypeWith(today_logs, at, MIN_HOURS_FOR_PUNCHOUT * Hour,
                           FALSE, TRUE)

\* "Determine punch type": emit a type, or refuse with the remaining wait
DeterminePunchType(today_logs, at) ==
    IF today_logs = <<>>
    THEN [emit |-> TRUE, punch_type |-> PUNCH_IN, hours |-> 0, minutes |-> 0]
    ELSE LET last_punch == today_logs[1]
         IN  IF last_punch.punch_type = PUNCH_OUT
             THEN [emit |-> TRUE, punch_type |-> PUNCH_IN, hours |-> 0, minutes |-> 0]
             ELSE LET time_since_punch_in == at - last_punch.timestamp
                      min_hours == MIN_HOURS_FOR_PUNCHOUT * Hour
                  IN  IF time_since_punch_in >= min_hours
                      THEN [emit |-> TRUE, punch_type |-> PUNCH_OUT,
                            hours |-> 0, minutes |-> 0]
                      ELSE LET remaining == min_hours - time_since_punch_in
                               seconds == remaining \div TicksPerSecond
                               remainder == seconds % 3600
                           IN  [emit |-> FALSE, punch_type |-> PUNCH_IN,
                                hours |-> seconds \div 3600,
                                minutes |-> remainder \div 60]

\* What verify_liveness returns: (passed, results)
Returned(v) == [passed |-> v.passed, results |-> v.results]

\* The arguments of a verify_liveness call (face_locations go with frames)
Call(frames, landmarks_list) == [frames |-> frames, landmarks_list |-> landmarks_list]

\* "Liveness check if multiple frames provided".  frames is request.frames
\* (None or a list).  Returns liveness_passed, the verify_liveness call made
\* (None when none was made) and what it returned.
PunchLiveness(frames) ==
    IF frames # None /\ Len(frames[1]) >= PUNCH_MIN_FRAMES
    THEN LET decoded == Take(frames[1], PUNCH_MAX_FRAMES)
             valid_frames == SelectSeq(decoded, LAMBDA f : f.face)
         IN  IF Len(valid_frames) >= PUNCH_MIN_FRAMES
             THEN LET v == verify_liveness(valid_frames, valid_frames, None,
                                           motion_history)
                  IN  [liveness_passed |-> v.passed,
                       call |-> Some(Call(valid_frames, None)),
                       liveness_result |-> Some(Returned(v))]
             ELSE [liveness_passed |-> TRUE, call |-> None,
                   liveness_result |-> None]
    ELSE [liveness_passed |-> TRUE, call |-> None, liveness_result |-> None]

\* punch up to the decision: the response when the handler returns early,
\* else the row it is about to add (row is None on an early return).
PunchDecide(image, frames, logs, at) ==
    LET r == recognize_face(image)
    IN  IF r.match = None
        THEN [row |-> None, call |-> None, liveness_result |-> None,
              resp |-> PunchResponse(FALSE, <<r.message>>, None, None, None, None,
                                     FALSE)]
        ELSE LET user_id == r.match[1].user_id
                 confidence == r.match[1].confidence
                 lv == PunchLiveness(frames)
                 d == DeterminePunchType(TodayLogs(logs, user_id, at), at)
                 last_punch == TodayLogs(logs, user_id, at)[1]
             IN  IF ~lv.liveness_passed
                 THEN [row |-> None, call |-> lv.call,
                       liveness_result |-> lv.liveness_result,
                       resp |-> PunchResponse(FALSE,
                                    <<"Liveness check failed",
                                      lv.liveness_result[1].results.message>>,
                                    Some(user_id), None, None, Some(confidence),
                                    FALSE)]
                 ELSE IF ~d.emit
                 THEN [row |-> None, call |-> lv.call,
                       liveness_result |-> lv.liveness_result,
                       resp |-> PunchResponse(FALSE,
                                    <<"Already punched in. Punch out available in",
                                      d.hours, d.minutes>>,
                                    Some(user_id), Some(PUNCH_IN),
                                    Some(last_punch.timestamp), Some(confidence),
                                    lv.liveness_passed)]
                 ELSE [row |-> Some([user_id |-> user_id,
                                     punch_type |-> d.punch_type,
                                     confidence_score |-> confidence,
                                     liveness_passed |->
                                         IF lv.liveness_passed THEN 1 ELSE 0]),
                       call |-> lv.call,
                       liveness_result |-> lv.liveness_result,
                       resp |-> None]

\* "Create attendance log": db.add, db.commit (timestamp defaults to utcnow)
\* and the success response.
PunchCommit(row, logs, at) ==
    LET attendance == AttendanceLog(row.user_id, row.punch_type, at,
                                    row.confidence_score, row.liveness_passed)
    IN  [logs |-> Append(logs, attendance),
         resp |-> PunchResponse(TRUE, <<"successful", row.punch_type>>,
                                Some(row.user_id), Some(row.punch_type),
                                Some(at), Some(row.confidence_score),
                                row.liveness_passed = 1)]

-----------------------------------------------------------------------------
(* Inputs *)

\* Clock readings: T0 (a UTC midnight) and the MIN_HOURS_FOR_PUNCHOUT-hour
\* slots after it, the first of them also one minute early and one tick late.
T0 == Day
Slot == MIN_HOURS_FOR_PUNCHOUT * Hour
Instants ==
    {T0, T0 + Slot - Minute, T0 + Slot + 1} \cup {T0 + k * Slot : k \in 1..MaxSlot}

TzOffsets == {0 - 6 * Hour, 0}

\* Request images: no face, the stored embedding of user 1, an embedding
\* 0.30 from user 2, an embedding 0.50 from everybody.
Images ==
    {[faces |-> <<>>],
     [faces |-> <<Face(4, Some(0))>>],
     [faces |-> <<Face(4, Some(130))>>],
     [faces |-> <<Face(4, Some(50))>>]}

\* Frames: without a face, with a face on the texture threshold, with a
\* face above it.
Textures == {TEXTURE_THRESHOLD, TEXTURE_THRESHOLD + 5}

\* a frames without a face followed by b frames with a face of texture x
Burst(a, b, x) ==
    [i \in 1..(a + b) |-> IF i <= a THEN Frame(FALSE, x) ELSE Frame(TRUE, x)]

Bursts == {Burst(a, b, x) : a \in 0..MaxBurst, b \in 0..MaxBurst, x \in Textures}

RequestFrames == {None} \cup {Some(b) : b \in Bursts}

-----------------------------------------------------------------------------
(* State machine *)

Workers == {1, 2}

Init ==
    /\ now = 0
    /\ tz \in TzOffsets
    /\ users = (1 :> [is_active |-> 1] @@ 2 :> [is_active |-> 1]
                @@ 3 :> [is_active |-> 0])
    /\ face_encodings = <<[user_id |-> 1, encoding |-> 0],
                          [user_id |-> 2, encoding |-> 100],
                          [user_id |-> 3, encoding |-> 50],
                          [user_id |-> 1, encoding |-> 10]>>
    /\ attendance_logs = <<>>
    /\ call = None
    /\ liveness_result = None
    /\ resp = None
    /\ blink_history = <<>>
    /\ motion_history = <<>>
    /\ pc = [w \in Workers |-> "idle"]
    /\ snap = [w \in Workers |-> None]
    /\ settings = [FACE_RECOGNITION_TOLERANCE |-> FACE_RECOGNITION_TOLERANCE]
    /\ op = None
    /\ owner = [blink |-> <<>>, motion |-> <<>>]

\* POST /attendance/punch, handled from start to end at clock reading t
Punch(t, image, frames) ==
    /\ t \in Instants /\ t > now
    /\ \A w \in Workers : pc[w] = "idle"
    /\ now' = t
    /\ \E d \in {PunchDecide(image, frames, attendance_logs, t)} :
           /\ call' = d.call
           /\ liveness_result' = d.liveness_result
           /\ IF d.row = None
              THEN /\ resp' = Some(d.resp)
                   /\ UNCHANGED attendance_logs
              ELSE /\ Len(attendance_logs) < MaxEvents
                   /\ \E c \in {PunchCommit(d.row[1], attendance_logs, t)} :
                          /\ attendance_logs' = c.logs
                          /\ resp' = Some(c.resp)
    /\ op' = None
    /\ UNCHANGED <<tz, users, face_encodings, blink_history, motion_history,
                   pc, snap, settings, owner>>

Next == \E t \in Instants, image \in Images, frames \in RequestFrames :
            Punch(t, image, frames)

Spec == Init /\ [][Next]_vars

-----------------------------------------------------------------------------
(* Several worker processes serving /attendance/punch over one database.
   The handler holds no lock and opens no serializable transaction, so
   between its query of today_logs and its commit another process may query
   or commit. *)

\* The clock moves on to the next reading of interest, between requests
Tick(t) ==
    /\ t \in Instants /\ t > now
    /\ \A w \in Workers : pc[w] = "idle"
    /\ now' = t
    /\ UNCHANGED <<tz, users, face_encodings, attendance_logs, call,
                   liveness_result, resp, blink_history, motion_history, pc, snap,
                   settings, op, owner>>

\* punch in worker w, from the start to the decision of punch_type
PunchRead(w, image, frames) ==
    /\ pc[w] = "idle"
    /\ now \in Instants
    /\ \E d \in {PunchDecide(image, frames, attendance_logs, now)} :
           /\ call' = d.call
           /\ liveness_result' = d.liveness_result
           /\ IF d.row = None
              THEN /\ resp' = Some(d.resp)
                   /\ UNCHANGED <<pc, snap>>
              ELSE /\ pc' = [pc EXCEPT ![w] = "commit"]
                   /\ snap' = [snap EXCEPT ![w] =
                          Some([row |-> d.row[1],
                                at |-> now,
                                today_logs |-> TodayLogs(attendance_logs,
                                                         d.row[1].user_id, now)])]
                   /\ UNCHANGED resp
    /\ op' = None
    /\ UNCHANGED <<now, tz, users, face_encodings, attendance_logs,
                   blink_history, motion_history, settings, owner>>

\* punch in worker w, from "Create attendance log" to the response
PunchWrite(w) ==
    /\ pc[w] = "commit"
    /\ Len(attendance_logs) < MaxEvents
    /\ \E c \in {PunchCommit(snap[w][1].row, attendance_logs, now)} :
           /\ attendance_logs' = c.logs
           /\ resp' = Some(c.resp)
    /\ pc' = [pc EXCEPT ![w] = "idle"]
    /\ snap' = [snap EXCEPT ![w] = None]
    /\ op' = None
    /\ UNCHANGED <<now, tz, users, face_encodings, call, liveness_result,
                   blink_history, motion_history, settings, owner>>

InitRace == Init /\ tz = 0

\* Requests of the racing workers: any image, a live burst
RaceFrames == {Some(Burst(0, LIVENESS_FRAMES_REQUIRED, TEXTURE_THRESHOLD + 5))}

NextRace ==
    \/ \E t \in Instants : Tick(t)
    \/ \E w \in Workers, image \in Images, frames \in RaceFrames :
           PunchRead(w, image, frames)
    \/ \E w \in Workers : PunchWrite(w)

SpecRace == InitRace /\ [][NextRace]_vars

-----------------------------------------------------------------------------
(* The liveness engine on its own: the /attendance/liveness-check endpoint
   and the methods of the anti_spoof_service singleton. *)

LivenessCheckResponse(passed, confidence, blink_detected, texture_passed, motion_passed, message) ==
    [passed |-> passed, confidence |-> confidence,
     blink_detected |-> blink_detected, texture_passed |-> texture_passed,
     motion_passed |-> motion_passed, message |-> message]

\* Landmark snapshots, two coordinates each: at rest, and 0.35 away on average
LandmarkSets == {<<0, 0>>, <<3, 4>>}

LandmarkLists == UNION {[1..n -> LandmarkSets] : n \in 0..MaxBurst}

\* Bursts of frames that all show a face
FaceBursts == {Burst(0, b, x) : b \in 0..MaxBurst, x \in Textures}

\* The owners of a history after session s appended k samples to it
RECURSIVE Stamp(_, _, _, _)
Stamp(owners, k, s, maxlen) ==
    IF k = 0 THEN owners ELSE Stamp(DequeAppend(owners, s, maxlen), k - 1, s, maxlen)

\* anti_spoof_service.verify_liveness(frames, face_locations, landmarks_list),
\* called by session s.  The histories stay below their maxlen here, so the
\* number of snapshots appended is the growth of motion_history.
VerifyLiveness(s, frames, landmarks_list) ==
    /\ \E v \in {verify_liveness(frames, frames, landmarks_list, motion_history)} :
           /\ Len(v.motion_history) <= MaxHist
           /\ call' = Some(Call(frames, landmarks_list))
           /\ liveness_result' = Some(Returned(v))
           /\ motion_history' = v.motion_history
           /\ owner' = [owner EXCEPT !.motion =
                            Stamp(@, Len(v.motion_history) - Len(motion_history),
                                  s, MOTION_MAXLEN)]
    /\ resp' = None
    /\ op' = Some(Op("verify_liveness", s, <<>>))
    /\ UNCHANGED <<now, tz, users, face_encodings, attendance_logs,
                   blink_history, pc, snap, settings>>

\* POST /attendance/liveness-check
CheckLiveness(frames) ==
    /\ IF Len(frames) < PUNCH_MIN_FRAMES
       THEN /\ resp' = Some(LivenessCheckResponse(FALSE, 0, FALSE, FALSE, FALSE,
                          "At least 2 frames required for liveness check"))
            /\ call' = None
            /\ liveness_result' = None
       ELSE LET decoded == Take(frames, PUNCH_MAX_FRAMES)
                valid_frames == SelectSeq(decoded, LAMBDA f : f.face)
            IN  IF Len(valid_frames) < PUNCH_MIN_FRAMES
                THEN /\ resp' = Some(LivenessCheckResponse(FALSE, 0, FALSE, FALSE,
                                   FALSE, "Could not detect face in enough frames"))
                     /\ call' = None
                     /\ liveness_result' = None
                ELSE \E v \in {verify_liveness(valid_frames, valid_frames, None,
                                               motion_history)} :
                        /\ resp' = Some(LivenessCheckResponse(
                                       v.passed, v.results.confidence,
                                       v.results.blink_detected,
                                       v.results.texture_passed,
                                       v.results.motion_passed,
                                       v.results.message))
                        /\ call' = Some(Call(valid_frames, None))
                        /\ liveness_result' = Some(Returned(v))
    /\ op' = None
    /\ UNCHANGED <<now, tz, users, face_encodings, attendance_logs,
                   blink_history, motion_history, pc, snap, settings, owner>>

\* anti_spoof_service.reset()
Reset ==
    /\ blink_history' = <<>>
    /\ motion_history' = <<>>
    /\ call' = None
    /\ liveness_result' = None
    /\ resp' = None
    /\ op' = None
    /\ owner' = [blink |-> <<>>, motion |-> <<>>]
    /\ UNCHANGED <<now, tz, users, face_encodings, attendance_logs, pc, snap,
                   settings>>

InitLive == Init /\ tz = 0

NextLive ==
    \/ \E frames \in FaceBursts, landmarks_list \in {None} \cup
                                    {Some(l) : l \in LandmarkLists} :
           VerifyLiveness(1, frames, landmarks_list)
    \/ \E frames \in Bursts : CheckLiveness(frames)
    \/ Reset

SpecLive == InitLive /\ [][NextLive]_vars

-----------------------------------------------------------------------------
(* The gallery: routes/users.py (create_user, register_face, delete_user,
   delete_face_encodings) and POST /attendance/recognize, under any
   configured tolerance. *)

\* Bounds of the gallery
MaxUsers == 2
MaxEncodings == 2

RecognitionResponse(success, recognized, user_id, confidence, message) ==
    [success |-> success, recognized |-> recognized, user_id |-> user_id,
     confidence |-> confidence, message |-> message]

FaceRegistrationResponse(success, encodings_saved) ==
    [success |-> success, encodings_saved |-> encodings_saved]

\* Configured tolerances: the default, and one that admits a distance of 1.0
Tolerances == {FACE_RECOGNITION_TOLERANCE, 100}

\* Embeddings that enrolment stores, and probes: equal to the first, 0.30 from
\* the first and 0.50 from the second, 0.40 from both, 1.00 from the first
Embeddings == {0, 80}
Probes == {0, 30, 40, 100}

\* Images sent to /attendance/recognize: no face, a face whose features
\* cannot be extracted, a small face beside the larger face that counts, and
\* one face for each probe
RecognizeImages ==
    {[faces |-> <<>>], [faces |-> <<Face(4, None)>>],
     [faces |-> <<Face(1, Some(80)), Face(4, Some(0))>>]}
    \cup {[faces |-> <<Face(4, Some(p))>>] : p \in Probes}

\* An image sent to register_face: its faces, and what validate_face_quality
\* says of the largest (size, centring, brightness)
RegistrationImage(faces, is_valid) == [faces |-> faces, is_valid |-> is_valid]

RegistrationImages ==
    {RegistrationImage(<<>>, TRUE), RegistrationImage(<<Face(4, Some(0))>>, FALSE),
     RegistrationImage(<<Face(4, None)>>, TRUE)}
    \cup {RegistrationImage(<<Face(4, Some(e))>>, TRUE) : e \in Embeddings}

\* request.images: one image, or two of which the first is any and the second
\* one that enrolment accepts
RegistrationRequests ==
    {<<a>> : a \in RegistrationImages}
    \cup {<<a, RegistrationImage(<<Face(4, Some(e))>>, TRUE)>> :
              a \in RegistrationImages, e \in Embeddings}

\* register_face, the loop over request.images: the encodings it stores
RECURSIVE SavedEncodings(_, _)
SavedEncodings(user_id, images) ==
    IF images = <<>> THEN <<>>
    ELSE LET image == Head(images)
             rest == SavedEncodings(user_id, Tail(images))
         IN  IF Len(image.faces) = 0 THEN rest
             ELSE LET face_location == LargestFace(Tail(image.faces), Head(image.faces))
                  IN  IF ~image.is_valid THEN rest
                      ELSE IF face_location.encoding = None THEN rest
                      ELSE <<[user_id |-> user_id,
                              encoding |-> face_location.encoding[1]]>> \o rest

InitGallery ==
    /\ now = 0
    /\ tz = 0
    /\ users = <<>>
    /\ face_encodings = <<>>
    /\ attendance_logs = <<>>
    /\ call = None
    /\ liveness_result = None
    /\ resp = None
    /\ blink_history = <<>>
    /\ motion_history = <<>>
    /\ pc = [w \in Workers |-> "idle"]
    /\ snap = [w \in Workers |-> None]
    /\ settings \in {[FACE_RECOGNITION_TOLERANCE |-> t] : t \in Tolerances}
    /\ op = None
    /\ owner = [blink |-> <<>>, motion |-> <<>>]

\* POST /users/ with an employee_id and email not yet in use: the new row
\* takes the next id, is_active defaults to 1
CreateUser ==
    /\ Len(users) < MaxUsers
    /\ users' = Append(users, [is_active |-> 1])
    /\ resp' = Some([id |-> Len(users) + 1, is_active |-> TRUE,
                     has_face_registered |-> FALSE])
    /\ call' = None /\ liveness_result' = None /\ op' = None
    /\ UNCHANGED <<now, tz, face_encodings, attendance_logs, blink_history,
                   motion_history, pc, snap, settings, owner>>

\* DELETE /users/{user_id}: the soft delete
DeleteUser(user_id) ==
    /\ user_id \in DOMAIN users
    /\ users' = [users EXCEPT ![user_id].is_active = 0]
    /\ resp' = None
    /\ call' = None /\ liveness_result' = None /\ op' = None
    /\ UNCHANGED <<now, tz, face_encodings, attendance_logs, blink_history,
                   motion_history, pc, snap, settings, owner>>

\* POST /users/register-face
RegisterFace(user_id, images) ==
    /\ user_id \in DOMAIN users
    /\ \E saved \in {SavedEncodings(user_id, images)} :
           /\ Len(face_encodings) + Len(saved) <= MaxEncodings
           /\ face_encodings' = face_encodings \o saved
           /\ resp' = Some(FaceRegistrationResponse(Len(saved) > 0, Len(saved)))
    /\ call' = None /\ liveness_result' = None /\ op' = None
    /\ UNCHANGED <<now, tz, users, attendance_logs, blink_history,
                   motion_history, pc, snap, settings, owner>>

\* DELETE /users/{user_id}/face-encodings
DeleteFaceEncodings(user_id) ==
    /\ user_id \in DOMAIN users
    /\ face_encodings' = SelectSeq(face_encodings, LAMBDA enc : enc.user_id # user_id)
    /\ resp' = None
    /\ call' = None /\ liveness_result' = None /\ op' = None
    /\ UNCHANGED <<now, tz, users, attendance_logs, blink_history,
                   motion_history, pc, snap, settings, owner>>

\* POST /attendance/recognize
Recognize(image) ==
    /\ \E r \in {recognize_face(image)} :
           resp' = Some(IF r.match # None
                        THEN RecognitionResponse(TRUE, TRUE, Some(r.match[1].user_id),
                                                 Some(r.match[1].confidence), r.message)
                        ELSE RecognitionResponse(TRUE, FALSE, None, None, r.message))
    /\ op' = Some(Op("recognize", 0, <<image>>))
    /\ call' = None /\ liveness_result' = None
    /\ UNCHANGED <<now, tz, users, face_encodings, attendance_logs, blink_history,
                   motion_history, pc, snap, settings, owner>>

\* No active identity has a stored embedding
EmptyGallery ==
    \A i \in 1..Len(face_encodings) : users[face_encodings[i].user_id].is_active # 1

\* Punch requests are let in while the gallery is empty; what punch does on
\* a gallery that is not is Spec's matter.
NextGallery ==
    \/ CreateUser
    \/ \E user_id \in 1..MaxUsers : DeleteUser(user_id)
    \/ \E user_id \in 1..MaxUsers, images \in RegistrationRequests :
           RegisterFace(user_id, images)
    \/ \E user_id \in 1..MaxUsers : DeleteFaceEncodings(user_id)
    \/ \E image \in RecognizeImages : Recognize(image)
    \/ \E image \in RecognizeImages, frames \in {None} \cup RaceFrames :
           EmptyGallery /\ Punch(T0, image, frames)

SpecGallery == InitGallery /\ [][NextGallery]_vars

-----------------------------------------------------------------------------
(* services/anti_spoof_service.py: the blink detector.  EAR values are in
   hundredths; the eyes fed to it are such that every division is exact. *)

\* Bound of the blink history
MaxBlinks == 10

\* The six landmark points of an eye whose vertical pairs are v1 and v2
\* apart and whose corners are h apart, each pair along one axis
Eye(v1, v2, h) == <<<<0, 0>>, <<1, v1>>, <<2, v2>>, <<h, 0>>, <<2, 0>>, <<1, 0>>>>

\* scipy.spatial.distance.euclidean, for two points on a line parallel to an axis
euclidean(p, q) == Abs(p[1] - q[1]) + Abs(p[2] - q[2])

\* eye_points[k] of the code is eye_points[k + 1] here
calculate_eye_aspect_ratio(eye_points) ==
    LET v1 == euclidean(eye_points[2], eye_points[6])
        v2 == euclidean(eye_points[3], eye_points[5])
        h == euclidean(eye_points[1], eye_points[4])
    IN  IF h = 0 THEN 0 ELSE ((v1 + v2) * 100) \div (2 * h)

\* Returns (is_blinking, avg_ear) and the history it leaves behind
detect_blink(left_eye, right_eye, history) ==
    LET left_ear == calculate_eye_aspect_ratio(left_eye)
        right_ear == calculate_eye_aspect_ratio(right_eye)
        avg_ear == (left_ear + right_ear) \div 2
    IN  [is_blinking |-> avg_ear < BLINK_THRESHOLD,
         avg_ear |-> avg_ear,
         blink_history |-> DequeAppend(history, avg_ear, BLINK_MAXLEN)]

\* max(window), min(window)
RECURSIVE SeqMax(_)
SeqMax(w) ==
    IF Len(w) = 1 THEN w[1]
    ELSE IF Head(w) >= SeqMax(Tail(w)) THEN Head(w) ELSE SeqMax(Tail(w))

RECURSIVE SeqMin(_)
SeqMin(w) ==
    IF Len(w) = 1 THEN w[1]
    ELSE IF Head(w) <= SeqMin(Tail(w)) THEN Head(w) ELSE SeqMin(Tail(w))

\* history[i:i+6] with i counted from 0: the slice stops at the end of the list
Window(history, i) ==
    SubSeq(history, i + 1,
           IF i + BLINK_WINDOW > Len(history) THEN Len(history) ELSE i + BLINK_WINDOW)

\* Returns (blink_detected, message)
check_blink_pattern(history) ==
    IF Len(history) < BLINK_MIN_HISTORY
    THEN [blink_detected |-> FALSE, message |-> "Collecting frames..."]
    ELSE IF \E i \in 0..(Len(history) - BLINK_WINDOW) :
                /\ SeqMax(Window(history, i)) > BLINK_OPEN
                /\ SeqMin(Window(history, i)) < BLINK_CLOSED
         THEN [blink_detected |-> TRUE,
               message |-> "Blink detected - liveness confirmed"]
         ELSE [blink_detected |-> FALSE, message |-> "Please blink naturally"]

\* Eyes: open (EAR 0.30), closed (EAR 0.10), and one whose corners coincide
OpenEye == Eye(15, 15, 50)
ClosedEye == Eye(5, 5, 50)
DegenerateEye == Eye(15, 15, 0)

EyePairs == {<<OpenEye, OpenEye>>, <<ClosedEye, ClosedEye>>,
             <<DegenerateEye, DegenerateEye>>}

\* anti_spoof_service.detect_blink(left_eye, right_eye), called by session s
DetectBlink(s, left_eye, right_eye) ==
    /\ \E r \in {detect_blink(left_eye, right_eye, blink_history)} :
           /\ blink_history' = r.blink_history
           /\ resp' = Some([is_blinking |-> r.is_blinking, avg_ear |-> r.avg_ear])
    /\ owner' = [owner EXCEPT !.blink = Stamp(@, 1, s, BLINK_MAXLEN)]
    /\ op' = Some(Op("detect_blink", s, <<left_eye, right_eye>>))
    /\ call' = None /\ liveness_result' = None
    /\ UNCHANGED <<now, tz, users, face_encodings, attendance_logs,
                   motion_history, pc, snap, settings>>

\* anti_spoof_service.check_blink_pattern(), called by session s
CheckBlinkPattern(s) ==
    /\ resp' = Some(check_blink_pattern(blink_history))
    /\ op' = Some(Op("check_blink_pattern", s, <<>>))
    /\ call' = None /\ liveness_result' = None
    /\ UNCHANGED <<now, tz, users, face_encodings, attendance_logs,
                   blink_history, motion_history, pc, snap, settings, owner>>

NextBlink ==
    \/ \E pair \in EyePairs :
           Len(blink_history) < MaxBlinks /\ DetectBlink(1, pair[1], pair[2])
    \/ CheckBlinkPattern(1)
    \/ Reset

SpecBlink == InitLive /\ [][NextBlink]_vars

-----------------------------------------------------------------------------
(* Two verification sessions using the liveness engine.  The routes import
   one module-level instance, anti_spoof_service, so every session calls the
   methods of the same object. *)

Sessions == {1, 2}

\* Bursts and landmarks of a session: a burst that is long enough, the face
\* at rest or moving
SessionLandmarks == {None, Some(<< <<0, 0>>, <<0, 0>> >>), Some(<< <<0, 0>>, <<3, 4>> >>)}

NextSession ==
    \/ \E s \in Sessions, pair \in EyePairs :
           Len(blink_history) < MaxHist /\ DetectBlink(s, pair[1], pair[2])
    \/ \E s \in Sessions : CheckBlinkPattern(s)
    \/ \E s \in Sessions, frames \in RaceFrames, landmarks_list \in SessionLandmarks :
           VerifyLiveness(s, frames[1], landmarks_list)
    \/ Reset

SpecSession == InitLive /\ [][NextSession]_vars

-----------------------------------------------------------------------------
(* The motion signal: verify_liveness on a fresh detector, given landmarks on
   and around the bounds of the band. *)

\* Landmark snapshots, two coordinates each.  From the first, the second is
\* 0.3 away on average, the third 0.35, the fourth 20.0
MotionLandmarkSets == {<<0, 0>>, <<3, 3>>, <<3, 4>>, <<200, 200>>}

MotionLandmarkLists == UNION {[1..n -> MotionLandmarkSets] : n \in 0..MaxBurst}

\* Bursts of live texture, one frame short of the required size and of it
MotionBursts ==
    {Burst(0, b, TEXTURE_THRESHOLD + 5) :
        b \in {LIVENESS_FRAMES_REQUIRED - 1, LIVENESS_FRAMES_REQUIRED}}

NextMotion ==
    \/ \E frames \in MotionBursts, landmarks_list \in {None} \cup
                                    {Some(l) : l \in MotionLandmarkLists} :
           motion_history = <<>> /\ VerifyLiveness(1, frames, landmarks_list)
    \/ Reset

SpecMotion == InitLive /\ [][NextMotion]_vars

-----------------------------------------------------------------------------
(* The verdict beside the blink detector: detect_blink fills the blink
   history, verify_liveness is called on bursts of either texture, with and
   without moving landmarks. *)

VerdictEyePairs == {<<OpenEye, OpenEye>>, <<ClosedEye, ClosedEye>>}

VerdictBursts == {Burst(0, LIVENESS_FRAMES_REQUIRED, x) : x \in Textures}

VerdictLandmarks == {None, Some(<< <<0, 0>>, <<3, 4>> >>)}

NextVerdict ==
    \/ \E pair \in VerdictEyePairs :
           Len(blink_history) < MaxBlinks /\ DetectBlink(1, pair[1], pair[2])
    \/ CheckBlinkPattern(1)
    \/ \E frames \in VerdictBursts, landmarks_list \in VerdictLandmarks :
           VerifyLiveness(1, frames, landmarks_list)
    \/ Reset

SpecVerdict == InitLive /\ [][NextVerdict]_vars

-----------------------------------------------------------------------------
(* The two histories as ring buffers: detect_blink and detect_motion called
   on a long stream of frames, past the capacity of either deque.  The
   subject blinks once after every BLINK_WINDOW open-eye frames and moves
   once after every LIVENESS_FRAMES_REQUIRED - 1 frames at rest, so that the
   position of a blink or of a movement in a history tells how much of the
   stream has been evicted. *)

RestLandmarks == <<0, 0>>
MovedLandmarks == <<3, 4>>

\* The last n items of a sequence are all in set S (and there are n of them)
LastAllIn(h, n, S) ==
    /\ Len(h) >= n
    /\ \A i \in (Len(h) - n + 1)..Len(h) : h[i] \in S

BlinkDue ==
    LastAllIn(blink_history, BLINK_WINDOW,
              {calculate_eye_aspect_ratio(OpenEye)})

MoveDue ==
    LastAllIn(motion_history, LIVENESS_FRAMES_REQUIRED - 1, {RestLandmarks})

\* The eyes of the next frame of the stream
StreamEyePairs ==
    IF BlinkDue THEN {<<ClosedEye, ClosedEye>>, <<DegenerateEye, DegenerateEye>>}
    ELSE {<<OpenEye, OpenEye>>}

\* The landmarks of the next frame of the stream
StreamLandmarks == IF MoveDue THEN {MovedLandmarks} ELSE {RestLandmarks}

\* anti_spoof_service.detect_motion(current_landmarks, previous_landmarks),
\* called by session s
DetectMotion(s, current_landmarks, previous_landmarks) ==
    /\ \E r \in {detect_motion(current_landmarks, previous_landmarks, motion_history)} :
           /\ motion_history' = r.motion_history
           /\ resp' = Some([has_movement |-> r.has_movement, movement |-> r.movement])
    /\ owner' = [owner EXCEPT !.motion = Stamp(@, 1, s, MOTION_MAXLEN)]
    /\ op' = Some(Op("detect_motion", s, <<current_landmarks, previous_landmarks>>))
    /\ call' = None /\ liveness_result' = None
    /\ UNCHANGED <<now, tz, users, face_encodings, attendance_logs,
                   blink_history, pc, snap, settings>>

NextHistory ==
    \/ \E pair \in StreamEyePairs : DetectBlink(1, pair[1], pair[2])
    \/ \E current_landmarks \in StreamLandmarks,
          previous_landmarks \in {None, Some(RestLandmarks)} :
           DetectMotion(1, current_landmarks, previous_landmarks)
    \/ Reset

SpecHistory == InitLive /\ [][NextHistory]_vars

-----------------------------------------------------------------------------
(* Reading a step of Spec: the request handled by the step is the one whose
   response is resp', handled at clock reading now'. *)

TooSoonText == "Already punched in. Punch out available in"
LivenessFailedText == "Liveness check failed"

\* The identity the last request was matched to (None: no match)
Identity(r) == IF r = None THEN None ELSE r[1].user_id

\* The rows of user u inside the day window of clock reading t
DayRows(logs, u, t) ==
    {i \in 1..Len(logs) : /\ logs[i].user_id = u
                          /\ logs[i].timestamp >= ((t + tz) \div Day) * Day
                          /\ logs[i].timestamp < ((t + tz) \div Day) * Day + Day}

\* The most recent of them
LastRow(logs, u, t) ==
    logs[CHOOSE i \in DayRows(logs, u, t) :
            \A j \in DayRows(logs, u, t) : logs[j].timestamp <= logs[i].timestamp]

LivenessRefused(r) == r[1].message[1] = LivenessFailedText

\* The step appended exactly one row, of type ty, for user u at time t
Appended(logs, logs2, u, ty, t) ==
    /\ Len(logs2) = Len(logs) + 1
    /\ SubSeq(logs2, 1, Len(logs)) = logs
    /\ logs2[Len(logs2)].user_id = u
    /\ logs2[Len(logs2)].punch_type = ty
    /\ logs2[Len(logs2)].timestamp = t

-----------------------------------------------------------------------------
(* C1: an event is appended by punch only when the face matched, a liveness
   check was run on the request's frames and passed, and the state machine
   approved: a successful punch implies verify_liveness returned passed for
   that request. *)
C1_EventOnlyAfterLivenessPassed ==
    (resp # None /\ resp[1].success)
        => (call # None /\ liveness_result # None /\ liveness_result[1].passed)

(* C2: when the identity's most recent event today is PUNCH_IN and
   now - last.timestamp < MIN_HOURS_FOR_PUNCHOUT, the punch appends nothing
   and, unless liveness refused it first, answers "too soon". *)
C2_TooSoonRejected ==
    [][\A u \in DOMAIN users :
          (/\ Identity(resp') = Some(u)
           /\ DayRows(attendance_logs, u, now') # {}
           /\ LastRow(attendance_logs, u, now').punch_type = PUNCH_IN
           /\ now' - LastRow(attendance_logs, u, now').timestamp
                  < MIN_HOURS_FOR_PUNCHOUT * Hour)
          => /\ attendance_logs' = attendance_logs
             /\ ~resp'[1].success
             /\ ~LivenessRefused(resp') => resp'[1].message[1] = TooSoonText]_vars

C2_Witness ==
    /\ resp # None
    /\ resp[1].message[1] = TooSoonText
    /\ attendance_logs # <<>>

(* C3: when the identity's most recent event today is PUNCH_IN and
   now - last.timestamp >= MIN_HOURS_FOR_PUNCHOUT (equality included), a
   matched request that liveness does not refuse appends PUNCH_OUT. *)
C3_PunchOutAfterMinHours ==
    [][\A u \in DOMAIN users :
          (/\ Identity(resp') = Some(u)
           /\ ~LivenessRefused(resp')
           /\ DayRows(attendance_logs, u, now') # {}
           /\ LastRow(attendance_logs, u, now').punch_type = PUNCH_IN
           /\ now' - LastRow(attendance_logs, u, now').timestamp
                  >= MIN_HOURS_FOR_PUNCHOUT * Hour)
          => /\ Appended(attendance_logs, attendance_logs', u, PUNCH_OUT, now')
             /\ resp'[1].success
             /\ resp'[1].punch_type = Some(PUNCH_OUT)]_vars

\* a PUNCH_OUT exactly MIN_HOURS_FOR_PUNCHOUT after the PUNCH_IN before it
C3_Witness ==
    /\ resp # None /\ resp[1].success /\ resp[1].punch_type = Some(PUNCH_OUT)
    /\ Len(attendance_logs) >= 2
    /\ attendance_logs[Len(attendance_logs)].punch_type = PUNCH_OUT
    /\ attendance_logs[Len(attendance_logs)].timestamp = now
    /\ \E i \in 1..(Len(attendance_logs) - 1) :
          /\ attendance_logs[i].user_id = attendance_logs[Len(attendance_logs)].user_id
          /\ attendance_logs[i].punch_type = PUNCH_IN
          /\ now - attendance_logs[i].timestamp = MIN_HOURS_FOR_PUNCHOUT * Hour
          /\ \A j \in (i + 1)..(Len(attendance_logs) - 1) :
                attendance_logs[j].user_id # attendance_logs[i].user_id

(* C4: a matched request that liveness does not refuse, for an identity with
   no events in today's log, appends PUNCH_IN. *)
C4_EmptyDayLogPunchIn ==
    [][\A u \in DOMAIN users :
          (/\ Identity(resp') = Some(u)
           /\ ~LivenessRefused(resp')
           /\ DayRows(attendance_logs, u, now') = {})
          => /\ Appended(attendance_logs, attendance_logs', u, PUNCH_IN, now')
             /\ resp'[1].success
             /\ resp'[1].punch_type = Some(PUNCH_IN)]_vars

\* a first PUNCH_IN of an identity while the other identity already has events
C4_Witness ==
    /\ resp # None /\ resp[1].success /\ resp[1].punch_type = Some(PUNCH_IN)
    /\ Len(attendance_logs) >= 2
    /\ \A i \in 1..(Len(attendance_logs) - 1) :
          attendance_logs[i].user_id # attendance_logs[Len(attendance_logs)].user_id

(* C5: a matched request that liveness does not refuse, for an identity whose
   most recent event today is PUNCH_OUT, appends PUNCH_IN however little time
   has passed since the PUNCH_OUT. *)
C5_PunchInAfterPunchOut ==
    [][\A u \in DOMAIN users :
          (/\ Identity(resp') = Some(u)
           /\ ~LivenessRefused(resp')
           /\ DayRows(attendance_logs, u, now') # {}
           /\ LastRow(attendance_logs, u, now').punch_type = PUNCH_OUT)
          => /\ Appended(attendance_logs, attendance_logs', u, PUNCH_IN, now')
             /\ resp'[1].success
             /\ resp'[1].punch_type = Some(PUNCH_IN)]_vars

\* a PUNCH_IN one tick after the same identity's PUNCH_OUT
C5_Witness ==
    /\ Len(attendance_logs) >= 3
    /\ \E i \in 1..(Len(attendance_logs) - 1) :
          /\ attendance_logs[i].punch_type = PUNCH_OUT
          /\ attendance_logs[i + 1].punch_type = PUNCH_IN
          /\ attendance_logs[i + 1].user_id = attendance_logs[i].user_id
          /\ attendance_logs[i + 1].timestamp = attendance_logs[i].timestamp + 1

(* C6: the too-soon outcome carries remaining = MIN_HOURS - elapsed as
   (hours, minutes): hours * 60 + minutes is the remaining time in whole
   minutes, minutes < 60, and 5h59m after the PUNCH_IN it is 0h 1m. *)
C6_RemainingTime ==
    (resp # None /\ resp[1].message[1] = TooSoonText)
        => LET elapsed == now - resp[1].timestamp[1]
               remaining == MIN_HOURS_FOR_PUNCHOUT * Hour - elapsed
               hours == resp[1].message[2]
               minutes == resp[1].message[3]
           IN  /\ remaining > 0
               /\ hours * 60 + minutes = remaining \div Minute
               /\ minutes \in 0..59
               /\ (elapsed = 5 * Hour + 59 * Minute) => (hours = 0 /\ minutes = 1)

\* the 5h59m scenario, and a remaining time that is not a whole minute
C6_Witness ==
    /\ resp # None /\ resp[1].message[1] = TooSoonText
    /\ now - resp[1].timestamp[1] = 5 * Hour + 59 * Minute
    /\ resp[1].message[2] = 0 /\ resp[1].message[3] = 1

(* C7: for any interleaving of two punch requests for the same identity, the
   read of today's events and the append of the decided event are one atomic
   step: a request commits only while today's events of its identity are
   still the ones it decided from. *)
C7_ReadAppendAtomic ==
    [][\A w \in Workers :
          (pc[w] = "commit" /\ pc'[w] = "idle")
          => TodayLogs(attendance_logs, snap[w][1].row.user_id, snap[w][1].at)
                 = snap[w][1].today_logs]_vars

-----------------------------------------------------------------------------
(* Reading a step of SpecLive: call', liveness_result' and resp' describe the
   operation the step performed. *)

InsufficientMessages ==
    {"Need at least 3 frames",
     "At least 2 frames required for liveness check",
     "Could not detect face in enough frames"}

SpoofMessage == "Liveness verification failed - possible spoof detected"

TooFewFrames(c) == c # None /\ Len(c[1].frames) < LIVENESS_FRAMES_REQUIRED

(* C8: a liveness check given fewer usable frames than
   LIVENESS_FRAMES_REQUIRED returns passed = false, confidence 0.0, every
   per-signal flag false and an insufficient-frames message, whatever the
   frames hold; no signal is evaluated (no texture score is computed and the
   histories are untouched). *)
C8_TooFewFramesFailClosed ==
    [][/\ TooFewFrames(call')
          => /\ liveness_result' # None
             /\ ~liveness_result'[1].passed
             /\ liveness_result'[1].results.confidence = 0
             /\ ~liveness_result'[1].results.blink_detected
             /\ ~liveness_result'[1].results.texture_passed
             /\ ~liveness_result'[1].results.motion_passed
             /\ ~liveness_result'[1].results.overall_passed
             /\ liveness_result'[1].results.message = "Need at least 3 frames"
             /\ liveness_result'[1].results.texture_score = None
             /\ motion_history' = motion_history
             /\ blink_history' = blink_history
       /\ (resp' # None /\ (call' = None \/ TooFewFrames(call')))
          => /\ ~resp'[1].passed
             /\ resp'[1].confidence = 0
             /\ ~resp'[1].blink_detected
             /\ ~resp'[1].texture_passed
             /\ ~resp'[1].motion_passed
             /\ resp'[1].message \in InsufficientMessages
             /\ resp'[1].message # SpoofMessage]_vars

\* two frames of passing texture with moving landmarks, refused
C8_Witness ==
    /\ call # None
    /\ Len(call[1].frames) = LIVENESS_FRAMES_REQUIRED - 1
    /\ call[1].frames[1].texture > TEXTURE_THRESHOLD
    /\ call[1].landmarks_list = Some(<< <<0, 0>>, <<3, 4>> >>)
    /\ liveness_result # None /\ ~liveness_result[1].passed

(* C9: with enough frames the confidence is the sum of the weights (texture
   0.5, motion 0.3, blink 0.2) of exactly the signals that passed, and
   overall_passed holds iff confidence >= 0.5; texture alone gives 0.5 and
   passes. *)
C9_WeightedFusion ==
    (call # None /\ ~TooFewFrames(call) /\ liveness_result # None)
        => LET r == liveness_result[1].results
           IN  /\ r.confidence = (IF r.texture_passed THEN 5 ELSE 0)
                                 + (IF r.motion_passed THEN 3 ELSE 0)
                                 + (IF r.blink_detected THEN 2 ELSE 0)
               /\ r.overall_passed <=> r.confidence >= 5
               /\ liveness_result[1].passed <=> r.overall_passed
               /\ (r.texture_passed /\ ~r.motion_passed /\ ~r.blink_detected)
                      => (r.confidence = 5 /\ r.overall_passed)

\* texture passed alone
C9_Witness ==
    /\ call # None /\ ~TooFewFrames(call) /\ liveness_result # None
    /\ liveness_result[1].results.texture_passed
    /\ ~liveness_result[1].results.motion_passed
    /\ liveness_result[1].results.confidence = 5
    /\ liveness_result[1].passed

(* C10: confidence is monotonic in each signal: against the verdict of any
   signal assignment that passes every signal this verdict passes (and maybe
   more) the confidence is not lower and a pass stays a pass; against any
   assignment passing fewer, it is not higher. *)
C10_Monotonic ==
    (call # None /\ ~TooFewFrames(call) /\ liveness_result # None)
        => LET r == liveness_result[1].results
           IN  \A t \in BOOLEAN, m \in BOOLEAN, b \in BOOLEAN :
                  /\ ((r.texture_passed => t) /\ (r.motion_passed => m)
                      /\ (r.blink_detected => b))
                     => /\ Fusion(t, m, b).confidence >= r.confidence
                        /\ r.overall_passed => Fusion(t, m, b).overall_passed
                  /\ ((t => r.texture_passed) /\ (m => r.motion_passed)
                      /\ (b => r.blink_detected))
                     => /\ Fusion(t, m, b).confidence <= r.confidence
                        /\ Fusion(t, m, b).overall_passed => r.overall_passed

\* a verdict with texture passed that gains motion
C10_Witness ==
    /\ call # None /\ ~TooFewFrames(call) /\ liveness_result # None
    /\ liveness_result[1].results.texture_passed
    /\ liveness_result[1].results.motion_passed
    /\ liveness_result[1].results.confidence = 8

-----------------------------------------------------------------------------
(* Reading a state of SpecGallery: after a step of /attendance/recognize, op
   holds the request image and resp the RecognitionResponse; users and
   face_encodings are the gallery the request was matched against. *)

Active == {u \in DOMAIN users : users[u].is_active = 1}

\* The embeddings of identity u now in store
Owned(u) ==
    {face_encodings[i].encoding :
        i \in {j \in 1..Len(face_encodings) : face_encodings[j].user_id = u}}

\* The identities recognition may return
Enrolled == {u \in Active : Owned(u) # {}}

\* The distance of identity u from probe p: the least over its embeddings
MinDistance(u, p) ==
    CHOOSE d \in {Abs(e - p) : e \in Owned(u)} :
        \A d2 \in {Abs(e - p) : e \in Owned(u)} : d <= d2

\* The last operation was a recognition of an image with a usable face
HasProbe ==
    /\ op # None
    /\ op[1].name = "recognize"
    /\ Len(op[1].args[1].faces) > 0
    /\ \A i \in 1..Len(op[1].args[1].faces) : op[1].args[1].faces[i].encoding # None

\* The embedding of the largest face of that image
Probe ==
    LET faces == op[1].args[1].faces
        f == CHOOSE i \in 1..Len(faces) : \A j \in 1..Len(faces) : faces[j].area <= faces[i].area
    IN  faces[f].encoding[1]

\* The least distance of an enrolled identity from the probe
BestDistance ==
    CHOOSE d \in {MinDistance(u, Probe) : u \in Enrolled} :
        \A u \in Enrolled : d <= MinDistance(u, Probe)

(* C11: recognition returns an identity whose minimum distance over its own
   embeddings is the smallest among all identities whenever that distance is
   <= tolerance, and no match otherwise, for every configured tolerance and
   every distance (1.0 and more included). *)
C11_BestWithinTolerance ==
    HasProbe
        => IF Enrolled # {} /\ BestDistance <= settings.FACE_RECOGNITION_TOLERANCE
           THEN /\ resp[1].recognized
                /\ resp[1].user_id[1] \in Enrolled
                /\ MinDistance(resp[1].user_id[1], Probe) = BestDistance
           ELSE ~resp[1].recognized

(* C12: when several identities share the best distance, the one registered
   first (the lowest id: ids are given in order of creation) wins. *)
C12_FirstRegisteredWinsTie ==
    (HasProbe /\ resp[1].recognized)
        => \A u \in Enrolled :
              MinDistance(u, Probe) = MinDistance(resp[1].user_id[1], Probe)
                  => resp[1].user_id[1] <= u

(* C13: if the probe is identical to a stored embedding of an enrolled
   identity, recognition returns an identity at distance 0 that stores it,
   with confidence 1.0, whatever the other embeddings are; it is that
   identity itself when no other identity stores the same embedding. *)
C13_IdenticalProbeWins ==
    (HasProbe /\ \E u \in Enrolled : Probe \in Owned(u))
        => /\ resp[1].recognized
           /\ resp[1].user_id[1] \in Enrolled
           /\ Probe \in Owned(resp[1].user_id[1])
           /\ resp[1].confidence = Some(100)
           /\ \A u \in Enrolled :
                 (Probe \in Owned(u) /\ \A v \in Enrolled \ {u} : Probe \notin Owned(v))
                     => resp[1].user_id = Some(u)

\* the probe is stored by the winner, who is not alone in the gallery
C13_Witness ==
    /\ HasProbe /\ resp[1].recognized
    /\ Probe \in Owned(resp[1].user_id[1])
    /\ \E v \in Enrolled \ {resp[1].user_id[1]} : Probe \notin Owned(v)

(* C13 as first stated: every enrolled identity that stores an embedding
   identical to the probe is the one recognition returns, another identity
   storing the same embedding included. *)
C13_EveryOwnerWins ==
    HasProbe
        => \A u \in Enrolled :
              Probe \in Owned(u) => (resp[1].recognized /\ resp[1].user_id = Some(u))

(* C14: the confidence reported with a match is 1 - the winner's minimum
   distance and lies in [0, 1]; with tolerance 0.45, one identity at 0.3 and
   the other at 0.5, the first is returned with confidence 0.7. *)
C14_ConfidenceIsOneMinusDistance ==
    HasProbe
        => /\ resp[1].recognized
              => /\ resp[1].confidence
                        = Some(100 - MinDistance(resp[1].user_id[1], Probe))
                 /\ resp[1].confidence[1] >= 0
                 /\ resp[1].confidence[1] <= 100
           /\ \A a \in Enrolled, b \in Enrolled :
                 (/\ settings.FACE_RECOGNITION_TOLERANCE = 45
                  /\ Enrolled = {a, b}
                  /\ MinDistance(a, Probe) = 30
                  /\ MinDistance(b, Probe) = 50)
                 => /\ resp[1].recognized
                    /\ resp[1].user_id = Some(a)
                    /\ resp[1].confidence = Some(70)

\* the scenario: A at 0.3, B at 0.5, tolerance 0.45
C14_Witness ==
    /\ HasProbe /\ resp[1].recognized /\ resp[1].confidence = Some(70)
    /\ settings.FACE_RECOGNITION_TOLERANCE = 45
    /\ MinDistance(resp[1].user_id[1], Probe) = 30
    /\ \E b \in Enrolled \ {resp[1].user_id[1]} : MinDistance(b, Probe) = 50

(* C15: with an empty gallery (no active identity has a stored embedding)
   recognition answers an ordinary "not recognized" response, and a punch
   is refused without creating an event. *)
C15_EmptyGalleryNoMatch ==
    [][EmptyGallery
          => /\ attendance_logs' = attendance_logs
             /\ (op' # None /\ op'[1].name = "recognize")
                   => /\ resp'[1].success
                      /\ ~resp'[1].recognized
                      /\ resp'[1].user_id = None
                      /\ resp'[1].confidence = None
                      /\ resp'[1].message \in {"No face detected in the image",
                                               "Could not extract face features",
                                               "No registered users in the system"}
             /\ now' # now
                   => /\ ~resp'[1].success
                      /\ resp'[1].user_id = None
                      /\ resp'[1].punch_type = None]_vars

\* a punch refused while the only stored embedding is a deleted identity's
C15_Witness ==
    /\ EmptyGallery
    /\ face_encodings # <<>>
    /\ now = T0
    /\ resp # None
    /\ "punch_type" \in DOMAIN resp[1]
    /\ resp[1].message = <<"No registered users in the system">>
    /\ attendance_logs = <<>>

(* C16: after any sequence of create_user, register_face, delete_user and
   delete_face_encodings, recognition only returns an identity that is
   active and owns at least one stored embedding. *)
C16_OnlyActiveEnrolledMatched ==
    (op # None /\ op[1].name = "recognize" /\ resp[1].recognized)
        => /\ resp[1].user_id[1] \in DOMAIN users
           /\ users[resp[1].user_id[1]].is_active = 1
           /\ Owned(resp[1].user_id[1]) # {}

\* a match while a soft-deleted identity stores the very probe
C16_Witness ==
    /\ HasProbe /\ resp[1].recognized
    /\ MinDistance(resp[1].user_id[1], Probe) > 0
    /\ \E v \in DOMAIN users : users[v].is_active = 0 /\ Probe \in Owned(v)

-----------------------------------------------------------------------------
(* Reading a state of SpecSession, SpecMotion and SpecBlink: op is the call
   of the detector just made and the session that made it, resp or
   liveness_result what it returned. *)

DetectorMethods == {"detect_blink", "check_blink_pattern", "verify_liveness"}

(* C17: the histories a session's call works on hold only samples that the
   same session appended, under any interleaving of the sessions' calls. *)
C17_DetectorStateExclusive ==
    (op # None /\ op[1].name \in DetectorMethods)
        => /\ \A i \in 1..Len(owner.blink) : owner.blink[i] = op[1].session
           /\ \A i \in 1..Len(owner.motion) : owner.motion[i] = op[1].session

\* The sum of |a[k] - b[k]| over the coordinates k
RECURSIVE Displacement(_, _, _)
Displacement(a, b, k) ==
    IF k = 0 THEN 0 ELSE Abs(a[k] - b[k]) + Displacement(a, b, k - 1)

\* Pair (i - 1, i) of the landmark list l moves by d with 0.3 < d < 20.0,
\* d the mean of the displacement over the coordinates
NaturalMotion(l, i) ==
    /\ 3 * Len(l[i]) < Displacement(l[i], l[i - 1], Len(l[i]))
    /\ Displacement(l[i], l[i - 1], Len(l[i])) < 200 * Len(l[i])

SomePairMoves(c) ==
    /\ c.landmarks_list # None
    /\ Len(c.landmarks_list[1]) >= 2
    /\ \E i \in 2..Len(c.landmarks_list[1]) : NaturalMotion(c.landmarks_list[1], i)

(* C18: for a burst of at least LIVENESS_FRAMES_REQUIRED frames,
   motion_passed is true if and only if landmark sets were supplied for at
   least two frames and some consecutive pair has mean absolute displacement
   d with 0.3 < d < 20.0, both bounds excluded; without landmarks it is
   false.  For a shorter burst motion_passed is false whatever the
   landmarks. *)
C18_MotionBand ==
    (call # None /\ liveness_result # None)
        => IF TooFewFrames(call)
           THEN ~liveness_result[1].results.motion_passed
           ELSE liveness_result[1].results.motion_passed <=> SomePairMoves(call[1])

\* three landmark sets: the first pair moves by exactly 0.3, the second by more
C18_Witness ==
    /\ call # None /\ ~TooFewFrames(call) /\ liveness_result # None
    /\ liveness_result[1].results.motion_passed
    /\ call[1].landmarks_list # None
    /\ Len(call[1].landmarks_list[1]) = 3
    /\ Displacement(call[1].landmarks_list[1][2], call[1].landmarks_list[1][1], 2) = 6
    /\ ~NaturalMotion(call[1].landmarks_list[1], 2)
    /\ NaturalMotion(call[1].landmarks_list[1], 3)

(* C18 as first stated: motion_passed is true if and only if landmark sets
   were supplied for at least two frames and some consecutive pair moves
   inside the band, whatever the size of the burst. *)
C18_MotionBandAnyBurst ==
    (call # None /\ liveness_result # None)
        => (liveness_result[1].results.motion_passed <=> SomePairMoves(call[1]))

\* Some window of 6 consecutive samples of h holds a sample above 0.25 and
\* a sample below 0.2
BlinkInSomeWindow(h) ==
    \E i \in 1..(Len(h) - 5) :
        /\ \E a \in i..(i + 5) : h[a] > 25
        /\ \E b \in i..(i + 5) : h[b] < 20

(* C19: after any sequence of detect_blink calls, check_blink_pattern
   confirms a blink exactly when some window of 6 consecutive samples of the
   history holds a sample above 0.25 and a sample below 0.2, for every
   history of 6 samples or more. *)
C19_BlinkPatternFromSixSamples ==
    (op # None /\ op[1].name = "check_blink_pattern" /\ Len(blink_history) >= 6)
        => (resp[1].blink_detected <=> BlinkInSomeWindow(blink_history))

\* The eye's corners coincide: its horizontal distance is zero
Degenerate(eye_points) == eye_points[1] = eye_points[4]

(* C20: a frame whose eye geometry is degenerate is not reported as a blink,
   and the sample it records is not one that can serve as the closed-eye
   sample of a blink pattern (it is not below 0.2). *)
C20_DegenerateEyeNotABlink ==
    (/\ op # None
     /\ op[1].name = "detect_blink"
     /\ (Degenerate(op[1].args[1]) \/ Degenerate(op[1].args[2])))
        => /\ ~resp[1].is_blinking
           /\ blink_history[Len(blink_history)] >= 20

-----------------------------------------------------------------------------
(* C21: verify_liveness never awards the blink weight: in every verdict it
   returns blink_detected is false, the confidence is one of 0, 0.3, 0.5,
   0.8 and overall_passed is true if and only if texture_passed is,
   whatever the blink history holds. *)
C21_BlinkWeightNeverAwarded ==
    (call # None /\ liveness_result # None)
        => /\ ~liveness_result[1].results.blink_detected
           /\ liveness_result[1].results.confidence \in {0, 3, 5, 8}
           /\ liveness_result[1].results.overall_passed
                  <=> liveness_result[1].results.texture_passed
           /\ liveness_result[1].passed <=> liveness_result[1].results.texture_passed

\* a verdict without texture, returned while the blink history holds a blink
\* that check_blink_pattern confirms
C21_Witness ==
    /\ call # None /\ ~TooFewFrames(call) /\ liveness_result # None
    /\ check_blink_pattern(blink_history).blink_detected
    /\ ~liveness_result[1].results.texture_passed
    /\ liveness_result[1].results.motion_passed
    /\ liveness_result[1].results.confidence = 3
    /\ ~liveness_result[1].passed

-----------------------------------------------------------------------------
\* The events of identity u whose timestamp falls on calendar day d, in time
\* order (serialized punches append with increasing timestamps)
EventsOfDay(u, d) ==
    SelectSeq(attendance_logs, LAMBDA l : l.user_id = u /\ l.timestamp \div Day = d)

CalendarDays == {attendance_logs[i].timestamp \div Day : i \in 1..Len(attendance_logs)}

Alternates(events) ==
    /\ events # <<>> => events[1].punch_type = PUNCH_IN
    /\ \A i \in 1..(Len(events) - 1) :
           /\ events[i].punch_type # events[i + 1].punch_type
           /\ events[i + 1].punch_type = PUNCH_OUT
                  => events[i + 1].timestamp - events[i].timestamp
                         >= MIN_HOURS_FOR_PUNCHOUT * Hour

(* C22: after any sequence of serialized punch requests, each identity's
   events of one calendar day, ordered by time, begin with PUNCH_IN and
   strictly alternate PUNCH_IN, PUNCH_OUT, PUNCH_IN, ...; no two consecutive
   events of a day have the same type, and every PUNCH_OUT is at least
   MIN_HOURS_FOR_PUNCHOUT after the PUNCH_IN preceding it. *)
C22_DayEventsAlternate ==
    \A u \in DOMAIN users, d \in CalendarDays : Alternates(EventsOfDay(u, d))

\* the same when the host's local date is the UTC date: a day with a
\* PUNCH_IN, its PUNCH_OUT and a second PUNCH_IN
C22_AlternateWhenLocalIsUTC == tz = 0 => C22_DayEventsAlternate

C22_FullCycle ==
    /\ tz = 0
    /\ \E u \in DOMAIN users, d \in CalendarDays :
           /\ Len(EventsOfDay(u, d)) = 3
           /\ EventsOfDay(u, d)[2].punch_type = PUNCH_OUT

-----------------------------------------------------------------------------
(* C23: every event appended by a punch has a timestamp inside the
   [today_start, today_end] window that the same punch used to read the
   identity's day-log, so that a punch made immediately afterwards sees the
   event as the last event of today; for every offset between the local
   calendar date and the UTC clock. *)
C23_EventInsideOwnWindow ==
    (resp # None /\ resp[1].success)
        => /\ attendance_logs # <<>>
           /\ attendance_logs[Len(attendance_logs)].timestamp >= today_start(now)
           /\ attendance_logs[Len(attendance_logs)].timestamp <= today_end(now)
           /\ TodayLogs(attendance_logs, resp[1].user_id[1], now) # <<>>
           /\ TodayLogs(attendance_logs, resp[1].user_id[1], now)[1]
                  = attendance_logs[Len(attendance_logs)]

\* with no offset the appended event is the head of the day-log read next
C23_InsideWhenLocalIsUTC == tz = 0 => C23_EventInsideOwnWindow

-----------------------------------------------------------------------------
\* The n most recent items of a sequence, in order
MostRecent(h, n) == IF Len(h) <= n THEN h ELSE SubSeq(h, Len(h) - n + 1, Len(h))

IsCall(o, name) == o # None /\ o[1].name = name

(* C24: after any sequence of detect_blink and detect_motion calls the blink
   history holds at most 30 samples and the motion history at most 10
   snapshots, each being exactly the most recent appended items in append
   order (the oldest evicted first); reset empties both. *)
C24_HistoriesAreRingBuffers ==
    [][/\ Len(blink_history') <= BLINK_MAXLEN
       /\ Len(motion_history') <= MOTION_MAXLEN
       /\ IsCall(op', "detect_blink")
              => /\ blink_history' = MostRecent(Append(blink_history, resp'[1].avg_ear),
                                                BLINK_MAXLEN)
                 /\ motion_history' = motion_history
       /\ IsCall(op', "detect_motion")
              => /\ motion_history' = MostRecent(Append(motion_history, op'[1].args[1]),
                                                 MOTION_MAXLEN)
                 /\ blink_history' = blink_history
       /\ op' = None => (blink_history' = <<>> /\ motion_history' = <<>>)]_vars

\* both histories full, the first blink and the first movement of the stream
\* evicted: a blink and a movement have come up to the oldest place
C24_Witness ==
    /\ Len(blink_history) = BLINK_MAXLEN
    /\ Len(motion_history) = MOTION_MAXLEN
    /\ blink_history[1] < BLINK_THRESHOLD
    /\ motion_history[1] = MovedLandmarks
    /\ IsCall(op, "detect_motion")

====
